---- MODULE Spec2Model ----
(***************************************************************************)
(* Permutohedral lattice filter (PermutohedralLatticeGPU.cuh): the lattice *)
(* embedding of createLattice, the concurrent hash table (insert,          *)
(* retrieve, cleanHashTable) and the splat / blur / slice kernels, run by  *)
(* PermutohedralLatticeGPU::filter.                                        *)
(*                                                                         *)
(* Arithmetic is exact.  A scaled coordinate position[i]*scaleFactor[i] is *)
(* an integer number of 1/Res units; a barycentric weight is an integer    *)
(* number of 1/(Res*(pd+1)) units; a blur round keeps the accumulators     *)
(* multiplied by 4 (the stencil 1/4, 1/2, 1/4 becomes 1, 2, 1), which the  *)
(* final division of slice cancels.                                        *)
(***************************************************************************)
EXTENDS Integers, Sequences, FiniteSets, TLC

\* ------------------------------------------------------------- bounds
MaxPd == 2          \* position dimensions pd range over 1..MaxPd
MaxSlots == 4       \* table capacity n*(pd+1) is at most MaxSlots
Res == 2            \* scaled coordinates are multiples of 1/Res
MaxCoord == 4       \* |scaled coordinate| <= MaxCoord/Res (embedding runs)
MaxVal == 2         \* input values range over 1..MaxVal
MaxBlock == 2       \* threads per splat block range over 1..MaxBlock
MaxGrid == 1        \* blocks per grid row the device accepts
vd == 2             \* value channels plus the mass channel
MaxKey == 2         \* key coordinates of direct table calls range over 0..MaxKey

\* ------------------------------------------------------ integer helpers
\* floor and ceil of a/b for b > 0, and C++ integer division (toward zero)
FloorDiv(a, b) == IF a >= 0 THEN a \div b ELSE -(((-a) + b - 1) \div b)

CeilDiv(a, b) == -FloorDiv(-a, b)

TruncDiv(a, b) == IF a >= 0 THEN a \div b ELSE -((-a) \div b)

\* static_cast<short>: wrap into -32768..32767
ToShort(x) == ((x + 32768) % 65536) - 32768

RECURSIVE SumOver(_, _)
SumOver(f, S) ==
    IF S = {} THEN 0
    ELSE LET x == CHOOSE y \in S : TRUE IN f[x] + SumOver(f, S \ {x})

\* ------------------------------------------------- 32-bit unsigned hash
\* An unsigned int is a pair <<hi, lo>> of 16-bit halves.
U32OfInt(x) == IF x >= 0 THEN <<x \div 65536, x % 65536>>
               ELSE <<65535 - ((-x - 1) \div 65536), 65535 - ((-x - 1) % 65536)>>

U32Add(a, b) ==
    LET lo == a[2] + b[2]
        hi == a[1] + b[1] + (lo \div 65536)
    IN <<hi % 65536, lo % 65536>>

\* k * 2531011 mod 2^32, by bytes of k so that no product exceeds 31 bits
U32MulHash(k) ==
    LET m  == 2531011
        ml == m % 65536
        l0 == k[2] % 256
        l1 == k[2] \div 256
        h0 == k[1] % 256
        h1 == k[1] \div 256
        y  == l0 * m
        x  == l1 * m
        p0 == <<(y \div 65536) % 65536, y % 65536>>
        p1 == <<(x \div 256) % 65536, (x % 256) * 256>>
        p2 == <<(h0 * ml) % 65536, 0>>
        p3 == <<(((h1 * ml) % 256) * 256) % 65536, 0>>
    IN U32Add(U32Add(p0, p1), U32Add(p2, p3))

U32Mod(k, c) == (((k[1] % c) * (65536 % c)) + (k[2] % c)) % c

RECURSIVE hashLoop(_, _, _, _)
hashLoop(key, d, i, k) ==
    IF i >= d THEN k
    ELSE hashLoop(key, d, i + 1, U32MulHash(U32Add(k, U32OfInt(key[i]))))

\* HashTableGPU::hash
hash(key, d) == hashLoop(key, d, 0, <<0, 0>>)

\* HashTableGPU::modHash, for a table of the given capacity
modHash(k, capacity) == U32Mod(k, 2 * capacity)

\* ------------------------------------------------------ lattice embedding
\* All of these are the per-sample computation of createLattice; d is pd.
\* cf[i] is position[i]*scaleFactor[i] in 1/Res units, elevated likewise;
\* rem0 and rank are integers; barycentric is in 1/(Res*(d+1)) units.

\* mutant: sm is not updated (sm += cf is dropped)
RECURSIVE elevateLoop_noRunningSum(_, _, _, _)
elevateLoop_noRunningSum(cf, i, sm, el) ==
    IF i = 0 THEN [el EXCEPT ![0] = sm]
    ELSE elevateLoop_noRunningSum(cf, i - 1, sm,
                                  [el EXCEPT ![i] = sm - i * cf[i - 1]])

RECURSIVE elevateLoop(_, _, _, _)
elevateLoop(cf, i, sm, el) ==
    IF i = 0 THEN [el EXCEPT ![0] = sm]
    ELSE elevateLoop(cf, i - 1, sm + cf[i - 1],
                     [el EXCEPT ![i] = sm - i * cf[i - 1]])

elevate(cf, d) == elevateLoop(cf, d, 0, [i \in 0..d |-> 0])

\* up = ceil(v) * (pd + 1) and down = floor(v) * (pd + 1) for v = e / (pd + 1)
upOf(e, d) == CeilDiv(e, Res * (d + 1)) * (d + 1)

downOf(e, d) == FloorDiv(e, Res * (d + 1)) * (d + 1)

\* mutant: the comparison is <=, so equal distances give up
roundOne_tieUp(e, d) ==
    IF upOf(e, d) * Res - e <= e - downOf(e, d) * Res
    THEN ToShort(upOf(e, d)) ELSE ToShort(downOf(e, d))

\* the up / down choice for one elevated coordinate e
roundOne(e, d) ==
    LET up   == upOf(e, d)
        down == downOf(e, d)
    IN IF up * Res - e < e - down * Res THEN ToShort(up) ELSE ToShort(down)

roundAll(el, d) == [i \in 0..d |-> roundOne(el[i], d)]

\* short sum of the rem0, then sum /= pd + 1
sumOf(rem, d) == TruncDiv(ToShort(SumOver(rem, 0..d)), d + 1)

\* elevated[i] - rem0[i], in 1/Res units
residual(el, rem, i) == el[i] - rem[i] * Res

\* mutant: equal residuals are not ordered by index
rankOne_noTieBreak(el, rem, d, i) ==
    Cardinality({j \in 0..d : residual(el, rem, i) < residual(el, rem, j)})

rankOne(el, rem, d, i) ==
    Cardinality({j \in 0..d :
        \/ residual(el, rem, i) < residual(el, rem, j)
        \/ (residual(el, rem, i) = residual(el, rem, j) /\ i > j)})

rankAll(el, rem, d) == [i \in 0..d |-> rankOne(el, rem, d, i)]

\* mutant: rem0 is left as rounded
correctRem0_none(rem, rk, sum, d) == rem

\* the two correction loops for sum > 0 and sum < 0
correctRem0(rem, rk, sum, d) ==
    [i \in 0..d |->
        IF sum > 0 THEN (IF rk[i] >= d + 1 - sum THEN rem[i] - (d + 1) ELSE rem[i])
        ELSE IF sum < 0 THEN (IF rk[i] < -sum THEN rem[i] + (d + 1) ELSE rem[i])
        ELSE rem[i]]

correctRank(rk, sum, d) ==
    [i \in 0..d |->
        IF sum > 0 THEN (IF rk[i] >= d + 1 - sum THEN rk[i] + sum - (d + 1)
                         ELSE rk[i] + sum)
        ELSE IF sum < 0 THEN (IF rk[i] < -sum THEN rk[i] + (d + 1) + sum
                              ELSE rk[i] + sum)
        ELSE rk[i]]

RECURSIVE barycentricLoop(_, _, _, _, _, _)
barycentricLoop(el, rem, rk, d, i, b) ==
    IF i > d THEN b
    ELSE LET delta == residual(el, rem, i)
             b1 == [b EXCEPT ![d - rk[i]] = @ + delta]
             b2 == [b1 EXCEPT ![d + 1 - rk[i]] = @ - delta]
         IN barycentricLoop(el, rem, rk, d, i + 1, b2)

\* mutant: barycentric[0] += 1, the wraparound slot is dropped
barycentricAll_nofold(el, rem, rk, d) ==
    LET b == barycentricLoop(el, rem, rk, d, 0, [k \in 0..(d + 1) |-> 0])
    IN [b EXCEPT ![0] = @ + Res * (d + 1)]

\* barycentric[0..pd+1] after the fold barycentric[0] += 1 + barycentric[pd+1]
barycentricAll(el, rem, rk, d) ==
    LET b == barycentricLoop(el, rem, rk, d, 0, [k \in 0..(d + 1) |-> 0])
    IN [b EXCEPT ![0] = @ + Res * (d + 1) + b[d + 1]]

\* the key of the simplex corner `remainder`
keyOf(rem, rk, remainder, d) ==
    [i \in 0..(d - 1) |->
        IF rk[i] > d - remainder THEN ToShort(ToShort(rem[i] + remainder) - (d + 1))
        ELSE ToShort(rem[i] + remainder)]

\* --------------------------------------------------------------- state
VARIABLES
    pd,             \* template parameter pd of this instantiation
    n,              \* PermutohedralLatticeGPU::n
    positions,      \* sample -> scaled position, read by createLattice
    inputs,         \* sample -> value channels, read by splatCache
    reverse,        \* filter's reverse argument
    blockSize,      \* threads per block of the splat launch
    warned,         \* the constructor printed its capacity message
    phase,          \* the kernel in flight or last launched
    color,          \* the blur round's colour (filter's loop variable)
    blurLog,        \* per blur launch: its colour and the buffers it was given
    entries,        \* HashTableGPU::entries, 2*capacity probe entries
    keys,           \* HashTableGPU::keys, one key per slot
    buf,            \* the two device value arrays
    valuesPtr,      \* which array hashTable.values points to (host side)
    newValuesPtr,   \* which array newValues points to (host side)
    kern,           \* the pointers the kernel in flight was launched with
    matrix,         \* MatrixEntry per (sample, corner)
    output,         \* sample -> filtered value, as numerators and denominator
    wk,             \* locals of the workers of the kernel in flight
    overlapped,     \* two insert calls have been in progress at once
    sharedOffsets,  \* splatCache: per block and thread
    sharedValues    \* splatCache: per block and thread

vars == <<pd, n, positions, inputs, reverse, blockSize, warned, phase, color,
          blurLog, entries, keys, buf, valuesPtr, newValuesPtr, kern, matrix,
          output, wk, overlapped, sharedOffsets, sharedValues>>

args == <<pd, n, positions>>
table == <<entries, keys>>
shared == <<sharedOffsets, sharedValues>>
host == <<warned, color, blurLog, valuesPtr, newValuesPtr, kern>>

\* HashTableGPU::capacity as the lattice constructs it
capacity == n * (pd + 1)

Samples == 0..(n - 1)
SlotIds == 0..(capacity - 1)
ProbeIds == 0..(2 * capacity - 1)
Channels == 0..(vd - 1)

\* scaled coordinates of the filter runs and of the embedding runs
FilterCoords == {1, Res + 1, 3 * Res + 1}
EmbedCoords == (-MaxCoord)..MaxCoord
ValSet == 1..MaxVal

ZeroVec == [j \in Channels |-> 0]

\* mutant: h is not incremented
nextProbe_stay(h) == h

\* the probe position after h
nextProbe(h) == IF h + 1 = 2 * capacity THEN 0 ELSE h + 1

\* keys[slot*pd .. slot*pd+pd-1] == key
keyMatch(slot, key) == \A i \in 0..(pd - 1) : keys[slot][i] = key[i]

AllDone == \A w \in DOMAIN wk : wk[w].pc = "done"

\* ----------------------------------------------------- construction
InitCommon ==
    /\ inputs = <<>>
    /\ reverse = FALSE
    /\ blockSize = 0
    /\ warned = FALSE
    /\ overlapped = FALSE
    /\ phase = "new"
    /\ color = 0
    /\ blurLog = <<>>
    /\ entries = <<>>
    /\ keys = <<>>
    /\ buf = <<>>
    /\ valuesPtr = 0
    /\ newValuesPtr = 1
    /\ kern = [values |-> 0, newValues |-> 1]
    /\ matrix = <<>>
    /\ output = <<>>
    /\ wk = <<>>
    /\ sharedOffsets = <<>>
    /\ sharedValues = <<>>

\* the arguments of one filter<T, pd, vd>(output, input, positions, n, reverse)
Init ==
    /\ pd \in 1..MaxPd
    /\ n \in 1..(MaxSlots \div (pd + 1))
    /\ positions \in [Samples -> [0..(pd - 1) -> FilterCoords]]
    /\ InitCommon

\* PermutohedralLatticeGPU constructor with the HashTableGPU constructor
Construct ==
    /\ phase = "new"
    /\ warned' = (n >= MaxGrid * MaxBlock)
    /\ entries' = [h \in ProbeIds |-> -1]
    /\ keys' = [s \in SlotIds |-> [i \in 0..(pd - 1) |-> 0]]
    /\ buf' = [b \in {0, 1} |-> [s \in SlotIds |-> ZeroVec]]
    /\ matrix' = [s \in SlotIds |-> [index |-> -1, weight |-> 0]]
    /\ phase' = "constructed"
    /\ UNCHANGED <<args, overlapped, inputs, reverse, blockSize, color, blurLog,
                   valuesPtr, newValuesPtr, kern, output, wk, shared>>

\* ------------------------------------------------------ createLattice
LaunchCreate ==
    /\ phase = "constructed"
    /\ phase' = "create"
    /\ kern' = [values |-> valuesPtr, newValues |-> newValuesPtr]
    /\ wk' = [idx \in Samples |->
                [pc |-> "elevate", elevated |-> <<>>, rem0 |-> <<>>, sum |-> 0,
                 rank |-> <<>>, barycentric |-> <<>>, remainder |-> 0,
                 key |-> <<>>, h |-> 0]]
    /\ UNCHANGED <<args, overlapped, inputs, reverse, blockSize, warned, color,
                   blurLog, table, buf, valuesPtr, newValuesPtr, matrix,
                   output, shared>>

CreateFrame == UNCHANGED <<args, inputs, reverse, blockSize, host, phase, buf,
                           output, shared>>

\* the worker is inside a call of insert that has made a probe
inCall(w) ==
    \/ w.pc \in {"writekey", "publish"}
    \/ (w.pc = "probe" /\ w.h # modHash(hash(w.key, pd), capacity))

\* a step of idx inside insert, noted when another call is in progress
noteOverlap(idx) ==
    overlapped' = (overlapped \/ \E o \in Samples \ {idx} : inCall(wk[o]))

Elevate(idx) ==
    /\ phase = "create" /\ wk[idx].pc = "elevate"
    /\ wk' = [wk EXCEPT ![idx].elevated = elevate(positions[idx], pd),
                        ![idx].pc = "round"]
    /\ UNCHANGED <<table, matrix, overlapped>> /\ CreateFrame

Round(idx) ==
    /\ phase = "create" /\ wk[idx].pc = "round"
    /\ LET rem == roundAll(wk[idx].elevated, pd)
       IN wk' = [wk EXCEPT ![idx].rem0 = rem, ![idx].sum = sumOf(rem, pd),
                           ![idx].pc = "rank"]
    /\ UNCHANGED <<table, matrix, overlapped>> /\ CreateFrame

Rank(idx) ==
    /\ phase = "create" /\ wk[idx].pc = "rank"
    /\ wk' = [wk EXCEPT ![idx].rank = rankAll(wk[idx].elevated, wk[idx].rem0, pd),
                        ![idx].pc = "correct"]
    /\ UNCHANGED <<table, matrix, overlapped>> /\ CreateFrame

Correct(idx) ==
    /\ phase = "create" /\ wk[idx].pc = "correct"
    /\ wk' = [wk EXCEPT
                ![idx].rem0 = correctRem0(wk[idx].rem0, wk[idx].rank, wk[idx].sum, pd),
                ![idx].rank = correctRank(wk[idx].rank, wk[idx].sum, pd),
                ![idx].pc = "barycentric"]
    /\ UNCHANGED <<table, matrix, overlapped>> /\ CreateFrame

\* the locals of a worker entering insert for the corner `remainder`
startInsert(w, remainder) ==
    LET key == keyOf(w.rem0, w.rank, remainder, pd)
    IN [w EXCEPT !.remainder = remainder, !.key = key,
                 !.h = modHash(hash(key, pd), capacity), !.pc = "probe"]

Barycentric(idx) ==
    /\ phase = "create" /\ wk[idx].pc = "barycentric"
    /\ LET w == [wk[idx] EXCEPT !.barycentric =
                    barycentricAll(wk[idx].elevated, wk[idx].rem0, wk[idx].rank, pd)]
       IN wk' = [wk EXCEPT ![idx] = startInsert(w, 0)]
    /\ UNCHANGED <<table, matrix, overlapped>> /\ CreateFrame

\* insert returned h: store the matrix entry and go on to the next corner
afterInsert(w) ==
    IF w.remainder = pd THEN [w EXCEPT !.pc = "done"]
    ELSE startInsert(w, w.remainder + 1)

matrixEntry(w, h) == [index |-> h, weight |-> w.barycentric[w.remainder]]

\* mutant: every corner of a sample offers the sample's first slot
slotOf_shared(idx, remainder) == idx * (pd + 1)

\* the slot the worker offers to insert
slotOf(idx, remainder) == idx * (pd + 1) + remainder

\* mutant: the locked cell is tried again
onLocked_retry(w) == w

\* what insert does on a cell found locked (-2) by atomicCAS
onLocked(w) == [w EXCEPT !.h = nextProbe(w.h)]

\* one iteration of insert's loop: atomicCAS(e, -1, -2) and what follows
InsertProbe(idx) ==
    /\ phase = "create" /\ wk[idx].pc = "probe"
    /\ LET w == wk[idx]
           contents == entries[w.h]
       IN CASE contents = -2 ->
                 /\ wk' = [wk EXCEPT ![idx] = onLocked(w)]
                 /\ UNCHANGED <<table, matrix>>
            [] contents = -1 ->
                 /\ entries' = [entries EXCEPT ![w.h] = -2]
                 /\ wk' = [wk EXCEPT ![idx].pc = "writekey"]
                 /\ UNCHANGED <<keys, matrix>>
            [] OTHER ->
                 IF keyMatch(contents, w.key)
                 THEN /\ matrix' = [matrix EXCEPT
                            ![slotOf(idx, w.remainder)] = matrixEntry(w, w.h)]
                      /\ wk' = [wk EXCEPT ![idx] = afterInsert(w)]
                      /\ UNCHANGED table
                 ELSE /\ wk' = [wk EXCEPT ![idx].h = nextProbe(w.h)]
                      /\ UNCHANGED <<table, matrix>>
    /\ noteOverlap(idx)
    /\ CreateFrame

\* mutant: the key is not written before the entry is published
InsertWriteKey_skip(idx) ==
    /\ phase = "create" /\ wk[idx].pc = "writekey"
    /\ wk' = [wk EXCEPT ![idx].pc = "publish"]
    /\ noteOverlap(idx)
    /\ UNCHANGED <<table, matrix>> /\ CreateFrame

\* the cell is locked by this worker: keys[slot*pd+i] = key[i]
InsertWriteKey(idx) ==
    /\ phase = "create" /\ wk[idx].pc = "writekey"
    /\ keys' = [keys EXCEPT ![slotOf(idx, wk[idx].remainder)] = wk[idx].key]
    /\ wk' = [wk EXCEPT ![idx].pc = "publish"]
    /\ noteOverlap(idx)
    /\ UNCHANGED <<entries, matrix>> /\ CreateFrame

\* mutant: the lock is released to empty, atomicExch(e, -1)
InsertPublish_release(idx) ==
    /\ phase = "create" /\ wk[idx].pc = "publish"
    /\ LET w == wk[idx]
       IN /\ entries' = [entries EXCEPT ![w.h] = -1]
          /\ matrix' = [matrix EXCEPT
                ![slotOf(idx, w.remainder)] = matrixEntry(w, w.h)]
          /\ wk' = [wk EXCEPT ![idx] = afterInsert(w)]
    /\ noteOverlap(idx)
    /\ UNCHANGED keys /\ CreateFrame

\* atomicExch(e, slot); return h
InsertPublish(idx) ==
    /\ phase = "create" /\ wk[idx].pc = "publish"
    /\ LET w == wk[idx]
       IN /\ entries' = [entries EXCEPT ![w.h] = slotOf(idx, w.remainder)]
          /\ matrix' = [matrix EXCEPT
                ![slotOf(idx, w.remainder)] = matrixEntry(w, w.h)]
          /\ wk' = [wk EXCEPT ![idx] = afterInsert(w)]
    /\ noteOverlap(idx)
    /\ UNCHANGED keys /\ CreateFrame


\* ----------------------------------------------------- cleanHashTable
LaunchClean ==
    /\ phase = "create" /\ AllDone
    /\ phase' = "clean"
    /\ kern' = [values |-> valuesPtr, newValues |-> newValuesPtr]
    /\ wk' = [idx \in ProbeIds |->
                [pc |-> "read", key |-> <<>>, h |-> 0, result |-> -1]]
    /\ UNCHANGED <<args, overlapped, inputs, reverse, blockSize, warned, color,
                   blurLog, table, buf, valuesPtr, newValuesPtr, matrix,
                   output, shared>>

CleanFrame == UNCHANGED <<args, inputs, reverse, blockSize, host, phase, keys,
                          buf, matrix, output, overlapped, shared>>

\* The first step of a worker reads its own entry, which no other worker
\* writes, and keys, which the kernel does not write: the first steps are
\* taken in index order (their order changes nothing).
readInOrder(idx) ==
    \A j \in ProbeIds : j < idx => wk[j].pc # "read"

\* if (*e >= 0), and the first steps of retrieve(table.keys + *e * pd)
CleanRead(idx) ==
    /\ phase = "clean" /\ wk[idx].pc = "read"
    /\ readInOrder(idx)
    /\ IF entries[idx] >= 0
       THEN LET key == keys[entries[idx]]
            IN wk' = [wk EXCEPT ![idx].key = key,
                                ![idx].h = modHash(hash(key, pd), capacity),
                                ![idx].pc = "probe"]
       ELSE wk' = [wk EXCEPT ![idx].pc = "done"]
    /\ UNCHANGED entries /\ CleanFrame

\* one iteration of retrieve's loop, up to the key comparison
RetrieveProbe(idx) ==
    /\ phase = "clean" /\ wk[idx].pc = "probe"
    /\ LET w == wk[idx]
           e == entries[w.h]
       IN IF e = -1
          THEN wk' = [wk EXCEPT ![idx].result = -1, ![idx].pc = "write"]
          ELSE IF e >= 0 /\ keyMatch(e, w.key)
          THEN wk' = [wk EXCEPT ![idx].pc = "return"]
          ELSE wk' = [wk EXCEPT ![idx].h = nextProbe(w.h)]
    /\ UNCHANGED entries /\ CleanFrame

\* mutant: return h, the probe position
RetrieveReturn_probeIndex(idx) ==
    /\ phase = "clean" /\ wk[idx].pc = "return"
    /\ wk' = [wk EXCEPT ![idx].result = wk[idx].h, ![idx].pc = "write"]
    /\ UNCHANGED entries /\ CleanFrame

\* return *e: the entry is read again
RetrieveReturn(idx) ==
    /\ phase = "clean" /\ wk[idx].pc = "return"
    /\ wk' = [wk EXCEPT ![idx].result = entries[wk[idx].h], ![idx].pc = "write"]
    /\ UNCHANGED entries /\ CleanFrame

\* mutant: the pass leaves the entry as it found it
CleanWrite_skip(idx) ==
    /\ phase = "clean" /\ wk[idx].pc = "write"
    /\ wk' = [wk EXCEPT ![idx].pc = "done"]
    /\ UNCHANGED entries /\ CleanFrame

\* *e = the value retrieve returned
CleanWrite(idx) ==
    /\ phase = "clean" /\ wk[idx].pc = "write"
    /\ entries' = [entries EXCEPT ![idx] = wk[idx].result]
    /\ wk' = [wk EXCEPT ![idx].pc = "done"]
    /\ CleanFrame


\* --------------------------------------------------------- retrieve
\* retrieve run against a table no worker is writing (blur).  The probe
\* space always keeps an empty entry, so the walk ends within 2*capacity
\* probes.
\* mutant: return h, the probe index, where the code returns *e
RECURSIVE retrieveLoop_probeIndex(_, _, _)
retrieveLoop_probeIndex(key, h, left) ==
    IF left = 0 \/ entries[h] = -1 THEN -1
    ELSE IF entries[h] >= 0 /\ keyMatch(entries[h], key) THEN h
    ELSE retrieveLoop_probeIndex(key, nextProbe(h), left - 1)

RECURSIVE retrieveLoop(_, _, _)
retrieveLoop(key, h, left) ==
    IF left = 0 \/ entries[h] = -1 THEN -1
    ELSE IF entries[h] >= 0 /\ keyMatch(entries[h], key) THEN entries[h]
    ELSE retrieveLoop(key, nextProbe(h), left - 1)

retrieve(key) == retrieveLoop(key, modHash(hash(key, pd), capacity), 2 * capacity)

\* ----------------------------------------------------------- splatCache
blockOf(idx) == idx \div blockSize
threadOf(idx) == idx % blockSize

LaunchSplat ==
    /\ phase = "clean" /\ AllDone
    /\ phase' = "splat"
    /\ overlapped' = FALSE
    /\ inputs' \in [Samples -> [0..(vd - 2) -> ValSet]]
    /\ blockSize' \in 1..MaxBlock
    /\ kern' = [values |-> valuesPtr, newValues |-> newValuesPtr]
    /\ wk' = [w \in Samples \X (0..pd) |-> [pc |-> "load", myOffset |-> -1, i |-> 0]]
    /\ sharedOffsets' = [g \in (0..((n - 1) \div blockSize')) \X (0..pd) |->
                            [t \in 0..(blockSize' - 1) |-> -1]]
    /\ sharedValues' = [g \in (0..((n - 1) \div blockSize')) \X (0..pd) |->
                            [t \in 0..(blockSize' - 1) |-> ZeroVec]]
    /\ UNCHANGED <<args, reverse, warned, color, blurLog, table, buf,
                   valuesPtr, newValuesPtr, matrix, output>>

SplatFrame == UNCHANGED <<args, inputs, reverse, blockSize, host, phase, table,
                          output, overlapped>>

\* Before __syncthreads() a thread writes its own matrix entry and its own
\* places in shared memory, which no thread reads before the barrier: these
\* parts are taken in the order of idx, then of the corner.
loadInOrder(idx, c) ==
    \A o \in Samples, d \in 0..pd :
        (o < idx \/ (o = idx /\ d < c)) => wk[<<o, d>>].pc # "load"

\* the part of the kernel before __syncthreads()
SplatLoad(idx, c) ==
    /\ phase = "splat" /\ wk[<<idx, c>>].pc = "load"
    /\ loadInOrder(idx, c)
    /\ LET r == matrix[idx * (pd + 1) + c]
           index == entries[r.index]
           g == <<blockOf(idx), c>>
           t == threadOf(idx)
           myValue == [j \in Channels |->
                          IF j < vd - 1 THEN inputs[idx][j] * r.weight ELSE r.weight]
       IN /\ matrix' = [matrix EXCEPT ![idx * (pd + 1) + c].index = index]
          /\ sharedOffsets' = [sharedOffsets EXCEPT ![g][t] = index * vd]
          /\ sharedValues' = [sharedValues EXCEPT ![g][t] = myValue]
          /\ wk' = [wk EXCEPT ![<<idx, c>>].myOffset = index * vd,
                              ![<<idx, c>>].pc = "scan"]
    /\ UNCHANGED buf /\ SplatFrame

\* mutant: the kernel without __syncthreads()
barrierPassed_none(idx, c) == TRUE

\* __syncthreads(): every in-range thread of the block has stored its pair
\* (a thread out of range stores the offset -1, which is the initial value)
barrierPassed(idx, c) ==
    \A other \in Samples :
        blockOf(other) = blockOf(idx) => wk[<<other, c>>].pc # "load"

\* mutant: no thread gives up, so colliding threads all write
yields_never(t, i, myOffset, offsets) == FALSE

\* whether the thread scanning position i gives up: a lower thread has its offset
yields(t, i, myOffset, offsets) == i < t /\ myOffset = offsets[i]

\* mutant: the first thread does not add the values of the others
absorbs_none(t, i, myOffset, offsets) == FALSE

\* whether the thread scanning position i takes the value stored there
absorbs(t, i, myOffset, offsets) == i > t /\ myOffset = offsets[i]

\* one iteration of the loop over the block's threads
SplatScan(idx, c) ==
    /\ phase = "splat" /\ wk[<<idx, c>>].pc = "scan"
    /\ barrierPassed(idx, c)
    /\ LET w == wk[<<idx, c>>]
           g == <<blockOf(idx), c>>
           t == threadOf(idx)
       IN IF yields(t, w.i, w.myOffset, sharedOffsets[g])
          THEN /\ wk' = [wk EXCEPT ![<<idx, c>>].pc = "done"]
               /\ UNCHANGED sharedValues
          ELSE /\ sharedValues' =
                    IF absorbs(t, w.i, w.myOffset, sharedOffsets[g])
                    THEN [sharedValues EXCEPT ![g][t] =
                            [j \in Channels |-> @[j] + sharedValues[g][w.i][j]]]
                    ELSE sharedValues
               /\ wk' = IF w.i + 1 = blockSize
                        THEN [wk EXCEPT ![<<idx, c>>].pc = "add",
                                        ![<<idx, c>>].i = 0]
                        ELSE [wk EXCEPT ![<<idx, c>>].i = w.i + 1]
    /\ UNCHANGED <<buf, matrix, sharedOffsets>> /\ SplatFrame

\* atomicAdd(val + j, myValue[j]) for every channel j.  The vd additions of
\* a thread are one step: additions commute and no thread of the kernel
\* reads the accumulators.
SplatAdd(idx, c) ==
    /\ phase = "splat" /\ wk[<<idx, c>>].pc = "add"
    /\ LET w == wk[<<idx, c>>]
           g == <<blockOf(idx), c>>
           t == threadOf(idx)
           slot == w.myOffset \div vd
       IN /\ buf' = [buf EXCEPT ![kern.values][slot] =
                        [j \in Channels |-> @[j] + sharedValues[g][t][j]]]
          /\ wk' = [wk EXCEPT ![<<idx, c>>].pc = "done"]
    /\ UNCHANGED <<matrix, shared>> /\ SplatFrame


\* --------------------------------------------------------------- blur
\* mutant: the loop body without std::swap
launchBlur_noswap(c) ==
    /\ phase' = "blur"
    /\ color' = c
    /\ kern' = [values |-> valuesPtr, newValues |-> newValuesPtr]
    /\ blurLog' = Append(blurLog, [color |-> c, reads |-> valuesPtr,
                                   writes |-> newValuesPtr])
    /\ UNCHANGED <<valuesPtr, newValuesPtr>>
    /\ wk' = [idx \in SlotIds |-> [pc |-> "run"]]

\* mutant: blur is given the table's own values as newValues
launchBlur_inplace(c) ==
    /\ phase' = "blur"
    /\ color' = c
    /\ kern' = [values |-> valuesPtr, newValues |-> valuesPtr]
    /\ blurLog' = Append(blurLog, [color |-> c, reads |-> valuesPtr,
                                   writes |-> valuesPtr])
    /\ UNCHANGED <<valuesPtr, newValuesPtr>>
    /\ wk' = [idx \in SlotIds |-> [pc |-> "run"]]

\* the body of filter's blur loop: launch blur for `c`, then std::swap
launchBlur(c) ==
    /\ phase' = "blur"
    /\ color' = c
    /\ kern' = [values |-> valuesPtr, newValues |-> newValuesPtr]
    /\ blurLog' = Append(blurLog, [color |-> c, reads |-> valuesPtr,
                                   writes |-> newValuesPtr])
    /\ valuesPtr' = newValuesPtr
    /\ newValuesPtr' = valuesPtr
    /\ wk' = [idx \in SlotIds |-> [pc |-> "run"]]

\* first iteration: remainder = reverse ? pd : 0
LaunchBlurFirst ==
    /\ phase = "splat" /\ AllDone
    /\ reverse' \in BOOLEAN
    /\ launchBlur(IF reverse' THEN pd ELSE 0)
    /\ UNCHANGED <<args, overlapped, inputs, blockSize, warned, table, buf,
                   matrix, output, shared>>

\* the colour after c in the loop's order
stepColor(c) == IF reverse THEN c - 1 ELSE c + 1

\* the loop condition remainder >= 0 && remainder <= pd
inLoop(c) == c >= 0 /\ c <= pd

LaunchBlurNext ==
    /\ phase = "blur" /\ AllDone
    /\ inLoop(stepColor(color))
    /\ launchBlur(stepColor(color))
    /\ UNCHANGED <<args, overlapped, inputs, reverse, blockSize, warned, table,
                   buf, matrix, output, shared>>

\* the neighbour keys np (dir = 1) and nm (dir = -1) of myKey along colour c;
\* for c = pd the adjusted element is the one retrieve never reads
neighbour(myKey, c, dir) ==
    [i \in 0..(pd - 1) |->
        IF i = c THEN ToShort(ToShort(myKey[i] + dir) - dir * (pd + 1))
        ELSE ToShort(myKey[i] + dir)]

\* mutant: the loop stops at vd - 1 and the mass channel stays zero
stencil_skipMass(valNp, valMe, valNm) ==
    [i \in Channels |->
        IF i < vd - 1 THEN valNp[i] + 2 * valMe[i] + valNm[i] ELSE 0]

\* valOut[i] = 0.25 * valNp[i] + 0.5 * valMe[i] + 0.25 * valNm[i], times 4
stencil(valNp, valMe, valNm) ==
    [i \in Channels |-> valNp[i] + 2 * valMe[i] + valNm[i]]

\* mutant: every slot passes the check
isValid_any(idx) == TRUE

\* the validity check of a blur worker
isValid(idx) == matrix[idx].index = idx

\* Workers failing the check return at once; they are taken in index order.
invalidInOrder(idx) ==
    \A j \in SlotIds : (j < idx /\ ~isValid(j)) => wk[j].pc = "done"

BlurWorker(idx) ==
    /\ phase = "blur" /\ wk[idx].pc = "run"
    /\ IF isValid(idx)
       THEN LET offNp == retrieve(neighbour(keys[idx], color, 1))
                offNm == retrieve(neighbour(keys[idx], color, -1))
                valNp == IF offNp >= 0 THEN buf[kern.values][offNp] ELSE ZeroVec
                valNm == IF offNm >= 0 THEN buf[kern.values][offNm] ELSE ZeroVec
                valMe == buf[kern.values][idx]
            IN buf' = [buf EXCEPT ![kern.newValues][idx] =
                            stencil(valNp, valMe, valNm)]
       ELSE /\ invalidInOrder(idx)
            /\ UNCHANGED buf
    /\ wk' = [wk EXCEPT ![idx].pc = "done"]
    /\ UNCHANGED <<args, overlapped, inputs, reverse, blockSize, host, phase, table, matrix,
                   output, shared>>

\* -------------------------------------------------------------- slice
LaunchSlice ==
    /\ phase = "blur" /\ AllDone
    /\ ~inLoop(stepColor(color))
    /\ phase' = "slice"
    /\ kern' = [values |-> valuesPtr, newValues |-> newValuesPtr]
    /\ wk' = [idx \in Samples |-> [pc |-> "run"]]
    /\ output' = [idx \in Samples |-> <<>>]
    /\ UNCHANGED <<args, overlapped, inputs, reverse, blockSize, warned, color,
                   blurLog, table, buf, valuesPtr, newValuesPtr, matrix, shared>>

\* mutant: the matrix row is taken without the sample's offset
RECURSIVE sliceSum_noOffset(_, _, _)
sliceSum_noOffset(idx, j, i) ==
    IF i > pd THEN 0
    ELSE LET r == matrix[i]
         IN r.weight * buf[kern.values][r.index][j] + sliceSum_noOffset(idx, j, i + 1)

\* sum over the corners i of r.weight * val[j]
RECURSIVE sliceSum(_, _, _)
sliceSum(idx, j, i) ==
    IF i > pd THEN 0
    ELSE LET r == matrix[idx * (pd + 1) + i]
         IN r.weight * buf[kern.values][r.index][j] + sliceSum(idx, j, i + 1)

\* mutant: slice clears the accumulators of the sample's first corner
SliceWorker_clearing(idx) ==
    /\ phase = "slice" /\ wk[idx].pc = "run"
    /\ output' = [output EXCEPT ![idx] =
                    [num |-> [j \in 0..(vd - 2) |-> sliceSum(idx, j, 0)],
                     den |-> sliceSum(idx, vd - 1, 0)]]
    /\ buf' = [buf EXCEPT
                ![kern.values][matrix[idx * (pd + 1)].index] = ZeroVec]
    /\ wk' = [wk EXCEPT ![idx].pc = "done"]
    /\ UNCHANGED <<args, overlapped, inputs, reverse, blockSize, host, phase, table,
                   matrix, shared>>

\* value[j] * (1 / weight) is kept as the pair value[j], weight
SliceWorker(idx) ==
    /\ phase = "slice" /\ wk[idx].pc = "run"
    /\ output' = [output EXCEPT ![idx] =
                    [num |-> [j \in 0..(vd - 2) |-> sliceSum(idx, j, 0)],
                     den |-> sliceSum(idx, vd - 1, 0)]]
    /\ wk' = [wk EXCEPT ![idx].pc = "done"]
    /\ UNCHANGED <<args, overlapped, inputs, reverse, blockSize, host, phase, table, buf,
                   matrix, shared>>

\* filter returns to its caller
Return ==
    /\ phase = "slice" /\ AllDone
    /\ phase' = "done"
    /\ UNCHANGED <<args, overlapped, inputs, reverse, blockSize, host, table, buf, matrix,
                   output, wk, shared>>

\* ------------------------------------------------------- specification
Next ==
    \/ Construct
    \/ LaunchCreate
    \/ \E idx \in Samples : Elevate(idx)
    \/ \E idx \in Samples : Round(idx)
    \/ \E idx \in Samples : Rank(idx)
    \/ \E idx \in Samples : Correct(idx)
    \/ \E idx \in Samples : Barycentric(idx)
    \/ \E idx \in Samples : InsertProbe(idx)
    \/ \E idx \in Samples : InsertWriteKey(idx)
    \/ \E idx \in Samples : InsertPublish(idx)
    \/ LaunchClean
    \/ \E idx \in ProbeIds : CleanRead(idx)
    \/ \E idx \in ProbeIds : RetrieveProbe(idx)
    \/ \E idx \in ProbeIds : RetrieveReturn(idx)
    \/ \E idx \in ProbeIds : CleanWrite(idx)
    \/ LaunchSplat
    \/ \E idx \in Samples, c \in 0..pd : SplatLoad(idx, c)
    \/ \E idx \in Samples, c \in 0..pd : SplatScan(idx, c)
    \/ \E idx \in Samples, c \in 0..pd : SplatAdd(idx, c)
    \/ LaunchBlurFirst
    \/ LaunchBlurNext
    \/ \E idx \in SlotIds : BlurWorker(idx)
    \/ LaunchSlice
    \/ \E idx \in Samples : SliceWorker(idx)
    \/ Return

Spec == Init /\ [][Next]_vars

\* One sample, positions over the whole coordinate range, up to the end of
\* createLattice: the embedding on its own.
InitEmbed ==
    /\ pd \in 1..MaxPd
    /\ n = 1
    /\ positions \in [Samples -> [0..(pd - 1) -> EmbedCoords]]
    /\ InitCommon

NextEmbed ==
    \/ Construct
    \/ LaunchCreate
    \/ \E idx \in Samples : Elevate(idx)
    \/ \E idx \in Samples : Round(idx)
    \/ \E idx \in Samples : Rank(idx)
    \/ \E idx \in Samples : Correct(idx)
    \/ \E idx \in Samples : Barycentric(idx)
    \/ \E idx \in Samples : InsertProbe(idx)
    \/ \E idx \in Samples : InsertWriteKey(idx)
    \/ \E idx \in Samples : InsertPublish(idx)

SpecEmbed == InitEmbed /\ [][NextEmbed]_vars

\* Two samples in one dimension, up to the end of cleanHashTable, with
\* positions over a range wide enough for two keys to share a home position
\* among the 2*capacity probe entries.
CleanCoords == {2 * c : c \in EmbedCoords}

InitClean ==
    /\ pd = 1
    /\ n = 2
    /\ positions \in [Samples -> [0..(pd - 1) -> CleanCoords]]
    /\ InitCommon

NextClean ==
    \/ Construct
    \/ LaunchCreate
    \/ \E idx \in Samples : Elevate(idx)
    \/ \E idx \in Samples : Round(idx)
    \/ \E idx \in Samples : Rank(idx)
    \/ \E idx \in Samples : Correct(idx)
    \/ \E idx \in Samples : Barycentric(idx)
    \/ \E idx \in Samples : InsertProbe(idx)
    \/ \E idx \in Samples : InsertWriteKey(idx)
    \/ \E idx \in Samples : InsertPublish(idx)
    \/ LaunchClean
    \/ \E idx \in ProbeIds : CleanRead(idx)
    \/ \E idx \in ProbeIds : RetrieveProbe(idx)
    \/ \E idx \in ProbeIds : RetrieveReturn(idx)
    \/ \E idx \in ProbeIds : CleanWrite(idx)

SpecClean == InitClean /\ [][NextClean]_vars

\* The same two kernels for two samples at the ends of the range, where the
\* samples have either the same keys or keys that share a home position;
\* the device goes on running some thread for as long as one can run.
LiveCoords == {-2 * MaxCoord, 2 * MaxCoord - 2}

InitLive ==
    /\ pd = 1
    /\ n = 2
    /\ positions \in [Samples -> [0..(pd - 1) -> LiveCoords]]
    /\ InitCommon

SpecLive == InitLive /\ [][NextClean]_vars /\ WF_vars(NextClean)

\* ------------------------------------------------- the table on its own
\* HashTableGPU<T, 1, vd> of capacity 2 called by one device thread: insert
\* with any key and any slot below capacity, retrieve with any key. A slot
\* may be offered again, so every one of the 2*capacity entries can come to
\* be occupied.
TableKeys == [0..(pd - 1) -> 0..MaxKey]

\* the caller between two calls
idle == [pc |-> "idle", key |-> [i \in 0..(pd - 1) |-> 0], slot |-> 0,
         h |-> 0, probes |-> 0, ret |-> -1]

\* HashTableGPU(capacity_): entries memset to -1, keys to 0
InitTable ==
    /\ pd = 1
    /\ n = 1
    /\ positions = [idx \in Samples |-> [i \in 0..(pd - 1) |-> 1]]
    /\ InitCommon

TableFrame == UNCHANGED <<args, inputs, reverse, blockSize, host, buf, matrix,
                          output, overlapped, shared>>

TableConstruct ==
    /\ phase = "new"
    /\ phase' = "table"
    /\ entries' = [h \in ProbeIds |-> -1]
    /\ keys' = [s \in SlotIds |-> [i \in 0..(pd - 1) |-> 0]]
    /\ wk' = [c \in {0} |-> idle]
    /\ TableFrame

\* the iterations of the loop the call has made, counted up to one full
\* round of the table and one more
countProbe(p) == IF p > 2 * capacity THEN p ELSE p + 1

\* the locals of a call after int h = modHash(hash(key))
startCall(op, key, slot) ==
    [pc |-> op, key |-> key, slot |-> slot,
     h |-> modHash(hash(key, pd), capacity), probes |-> 0, ret |-> -1]

\* the thread calls insert(key, slot)
TableInsert(key, slot) ==
    /\ phase = "table" /\ wk[0].pc = "idle"
    /\ wk' = [wk EXCEPT ![0] = startCall("insert", key, slot)]
    /\ UNCHANGED <<table, phase>> /\ TableFrame

\* the thread calls retrieve(key)
TableRetrieve(key) ==
    /\ phase = "table" /\ wk[0].pc = "idle"
    /\ wk' = [wk EXCEPT ![0] = startCall("retrieve", key, 0)]
    /\ UNCHANGED <<table, phase>> /\ TableFrame

\* one iteration of insert's while (1) with no other thread in the table
TableInsertStep ==
    /\ phase = "table" /\ wk[0].pc = "insert"
    /\ LET w == wk[0]
           contents == entries[w.h]
       IN CASE contents = -2 ->
                 /\ wk' = [wk EXCEPT ![0].h = nextProbe(w.h),
                                     ![0].probes = countProbe(w.probes)]
                 /\ UNCHANGED table
            [] contents = -1 ->
                 /\ keys' = [keys EXCEPT ![w.slot] = w.key]
                 /\ entries' = [entries EXCEPT ![w.h] = w.slot]
                 /\ wk' = [wk EXCEPT ![0].pc = "idle", ![0].ret = w.h,
                                     ![0].probes = countProbe(w.probes)]
            [] OTHER ->
                 IF keyMatch(contents, w.key)
                 THEN /\ wk' = [wk EXCEPT ![0].pc = "idle", ![0].ret = w.h,
                                          ![0].probes = countProbe(w.probes)]
                      /\ UNCHANGED table
                 ELSE /\ wk' = [wk EXCEPT ![0].h = nextProbe(w.h),
                                          ![0].probes = countProbe(w.probes)]
                      /\ UNCHANGED table
    /\ UNCHANGED phase /\ TableFrame

\* one iteration of retrieve's while (1)
TableRetrieveStep ==
    /\ phase = "table" /\ wk[0].pc = "retrieve"
    /\ LET w == wk[0]
           e == entries[w.h]
       IN IF e = -1
          THEN wk' = [wk EXCEPT ![0].pc = "idle", ![0].ret = -1,
                                ![0].probes = countProbe(w.probes)]
          ELSE IF keyMatch(e, w.key)
          THEN wk' = [wk EXCEPT ![0].pc = "idle", ![0].ret = e,
                                ![0].probes = countProbe(w.probes)]
          ELSE wk' = [wk EXCEPT ![0].h = nextProbe(w.h),
                                ![0].probes = countProbe(w.probes)]
    /\ UNCHANGED <<table, phase>> /\ TableFrame

NextTable ==
    \/ TableConstruct
    \/ \E key \in TableKeys, slot \in SlotIds : TableInsert(key, slot)
    \/ \E key \in TableKeys : TableRetrieve(key)
    \/ TableInsertStep
    \/ TableRetrieveStep

SpecTable == InitTable /\ [][NextTable]_vars

\* ============================================================== claims
\* the key createLattice computes for the matrix entry m = idx*(pd+1)+remainder
cornerKey(m) ==
    LET idx == m \div (pd + 1)
        el  == elevate(positions[idx], pd)
        r0  == roundAll(el, pd)
        su  == sumOf(r0, pd)
        rk0 == rankAll(el, r0, pd)
    IN keyOf(correctRem0(r0, rk0, su, pd), correctRank(rk0, su, pd),
             m % (pd + 1), pd)

CreateDone == phase = "create" /\ AllDone
CleanDone == phase = "clean" /\ AllDone
AfterClean == CleanDone \/ phase \in {"splat", "blur", "slice", "done"}

\* insert has returned for the matrix entry m (createLattice in flight)
returned(m) ==
    LET w == wk[m \div (pd + 1)]
    IN \/ w.pc = "done"
       \/ (w.pc \in {"probe", "writekey", "publish"} /\ w.remainder > m % (pd + 1))

\* no insert call is in progress
Quiescent == \A idx \in Samples : ~inCall(wk[idx])

\* two probe entries were published for one key
Duplicated == \E h1, h2 \in ProbeIds :
    h1 # h2 /\ entries[h1] >= 0 /\ entries[h1] = entries[h2]

\* C1: once cleanHashTable has completed, two occupied probe entries hold the
\* same slot exactly when their stored keys are equal, and two matrix entries
\* computed for the same key resolve (through entries) to the same slot.
C1_OneSlotPerKey ==
    /\ AfterClean =>
         \A h1, h2 \in ProbeIds :
            (entries[h1] >= 0 /\ entries[h2] >= 0) =>
                ((keys[entries[h1]] = keys[entries[h2]])
                    <=> (entries[h1] = entries[h2]))
    /\ CleanDone =>
         \A m1, m2 \in SlotIds :
            (cornerKey(m1) = cornerKey(m2)) =>
                (entries[matrix[m1].index] = entries[matrix[m2].index])

\* a race left two probe entries for one key, now holding one slot
C1_Witness == CleanDone /\ Duplicated

\* C2 as stated: retrieve gives back the probe index insert returned
C2_RetrieveIsInsertIndex ==
    CleanDone => \A m \in SlotIds : retrieve(cornerKey(m)) = matrix[m].index

\* C2 amended: retrieve gives back the slot held by the probe entry insert
\* returned; at once when the insert calls ran one at a time, and after
\* cleanHashTable when they raced.
C2_RetrieveIsInsertedSlot ==
    /\ (phase = "create" /\ ~overlapped /\ Quiescent) =>
         \A m \in SlotIds :
            returned(m) => retrieve(cornerKey(m)) = entries[matrix[m].index]
    /\ CleanDone =>
         \A m \in SlotIds : retrieve(cornerKey(m)) = entries[matrix[m].index]

\* as C1_Witness, for a probe index that is not the slot it holds
C2_Witness ==
    /\ CleanDone /\ Duplicated /\ overlapped
    /\ \E m \in SlotIds : entries[matrix[m].index] # matrix[m].index

\* C3: from the end of createLattice on, retrieve finds every inserted key at
\* a slot that stores that key; so does every retrieve cleanHashTable runs.
C3_InsertedKeysFound ==
    /\ (CreateDone \/ phase = "clean") =>
         \A m \in SlotIds :
            LET key == cornerKey(m)
                slot == retrieve(key)
            IN slot >= 0 /\ keys[slot] = key
    /\ phase = "clean" =>
         \A h \in ProbeIds :
            wk[h].pc \in {"write", "done"} /\ entries[h] >= 0 =>
                /\ wk[h].result >= 0
                /\ keys[wk[h].result] = wk[h].key

\* cleanHashTable is rewriting the entries of a key inserted twice
C3_Witness ==
    /\ phase = "clean" /\ Duplicated
    /\ \E h1, h2 \in ProbeIds :
        /\ wk[h1].pc = "done" /\ wk[h2].pc = "write"
        /\ entries[h1] >= 0 /\ entries[h2] >= 0 /\ entries[h1] # entries[h2]
        /\ keys[entries[h1]] = keys[entries[h2]]

\* ------------------------------------------------------------- C4
\* the vector splatCache forms for the matrix entry m, channel j
splatValue(m, j) ==
    IF j < vd - 1 THEN inputs[m \div (pd + 1)][j] * matrix[m].weight
    ELSE matrix[m].weight

SplatDone == phase = "splat" /\ AllDone

\* C4: when splatCache has completed, every slot's accumulator is the sum of
\* (weight*value[0..vd-2], weight) over the matrix entries whose key resolves
\* to that slot, each counted once, for every block size and interleaving.
C4_SplatExactSum ==
    SplatDone =>
        LET slot == [m \in SlotIds |-> retrieve(cornerKey(m))]
        IN \A s \in SlotIds, j \in Channels :
            buf[kern.values][s][j] =
                SumOver([m \in SlotIds |->
                            IF slot[m] = s THEN splatValue(m, j) ELSE 0], SlotIds)

\* two threads of one block held the same offset for one corner
C4_Witness ==
    /\ SplatDone /\ n = 2 /\ blockSize = 2
    /\ inputs[0] # inputs[1]
    /\ \E c \in 0..pd :
        /\ retrieve(cornerKey(c)) = retrieve(cornerKey((pd + 1) + c))
        /\ matrix[c].weight > 0 /\ matrix[(pd + 1) + c].weight > 0

\* ------------------------------------------------------- C5 and C6
\* slice's output for idx is the sample's own input value
reproduces(idx) ==
    /\ output[idx].den # 0
    /\ \A j \in 0..(vd - 2) :
        output[idx].num[j] = inputs[idx][j] * output[idx].den

Uniform == \A a, b \in Samples :
    positions[a] = positions[b] /\ inputs[a] = inputs[b]

\* C5: with one position and one value vector for all samples, filter gives
\* every sample its input value, whichever way the blur rounds run.
C5_ConstantPreserved ==
    (phase = "done" /\ Uniform) => \A idx \in Samples : reproduces(idx)

\* two samples on one simplex, blurred from colour pd down to 0
C5_Witness == phase = "done" /\ Uniform /\ n = 2 /\ reverse

\* the keys of the pd+1 vertices of the sample's simplex
vertexKeys(idx) == {cornerKey(idx * (pd + 1) + r) : r \in 0..pd}

isolated(idx) ==
    \A o \in Samples \ {idx} : vertexKeys(idx) \cap vertexKeys(o) = {}

\* a vertex of idx has a vertex of another sample as blur neighbour
blurAdjacent(idx) ==
    \E o \in Samples \ {idx}, k \in vertexKeys(idx), c \in 0..pd, dir \in {1, -1} :
        neighbour(k, c, dir) \in vertexKeys(o)

\* C6 as stated: a sample sharing no vertex with another sample is filtered
\* to its own input value.
C6_IsolatedReproduces ==
    phase = "done" => \A idx \in Samples : isolated(idx) => reproduces(idx)

\* C6 amended: a sample whose vertices are neither shared with nor blur
\* neighbours of another sample's vertices is filtered to its own input value.
C6_SeparatedReproduces ==
    phase = "done" =>
        \A idx \in Samples :
            (isolated(idx) /\ ~blurAdjacent(idx)) => reproduces(idx)

\* two samples with different values on simplices that do not touch
C6_Witness ==
    /\ phase = "done" /\ n = 2
    /\ inputs[0] # inputs[1]
    /\ \A idx \in Samples : isolated(idx) /\ ~blurAdjacent(idx)

\* ------------------------------------------------------------- C7
\* createLattice has computed the weights of sample idx
weighed(idx) == wk[idx].pc \in {"probe", "writekey", "publish", "done"}

\* C7: the weights barycentric[0..pd] of a sample, and the weights stored in
\* its matrix entries, sum to 1, that is to Res*(pd+1) weight units.
C7_WeightsSumToOne ==
    /\ phase = "create" =>
         \A idx \in Samples :
            weighed(idx) =>
                SumOver(wk[idx].barycentric, 0..pd) = Res * (pd + 1)
    /\ CreateDone =>
         \A idx \in Samples :
            SumOver([r \in 0..pd |-> matrix[idx * (pd + 1) + r].weight], 0..pd)
                = Res * (pd + 1)

\* the wraparound slot held a nonzero weight that went into slot 0
C7_Witness ==
    /\ CreateDone /\ pd = 2
    /\ wk[0].barycentric[pd + 1] # 0
    /\ positions[0][0] < 0

\* ------------------------------------------------------------- C8
\* the colour of the k-th blur round
roundColor(k) == IF reverse THEN pd - (k - 1) ELSE k - 1

BlurChain ==
    /\ phase \in {"new", "constructed", "create", "clean", "splat"}
            => blurLog = <<>>
    /\ phase = "blur" =>
         /\ Len(blurLog) \in 1..(pd + 1)
         /\ color = blurLog[Len(blurLog)].color
         /\ kern.values = blurLog[Len(blurLog)].reads
         /\ kern.newValues = blurLog[Len(blurLog)].writes
    /\ phase \in {"slice", "done"} =>
         /\ Len(blurLog) = pd + 1
         /\ kern.values = blurLog[pd + 1].writes
    /\ \A k \in 1..Len(blurLog) :
         /\ blurLog[k].color = roundColor(k)
         /\ blurLog[k].reads # blurLog[k].writes
         /\ k > 1 => blurLog[k].reads = blurLog[k - 1].writes

\* C8: filter runs pd+1 blur rounds in colour order (0..pd, or pd..0 when
\* reverse), each launched only when all workers of the kernel before it are
\* done; each round reads the buffer the round before wrote, and slice reads
\* the buffer the last round wrote.
C8_BlurRounds ==
    /\ []BlurChain
    /\ [][(blurLog' # blurLog \/ (phase = "blur" /\ phase' = "slice")) => AllDone]_vars

\* three rounds, three swaps, colours 2, 1, 0
C8_Witness ==
    /\ phase = "done" /\ reverse /\ pd = 2
    /\ Len(blurLog) = 3
    /\ blurLog[3].color = 0

\* ------------------------------------------------------------- C9
\* Single-threaded reference engine: one accumulator per lattice key, the
\* phases run one after another over the keys.
refWeight(m) ==
    LET idx == m \div (pd + 1)
        el  == elevate(positions[idx], pd)
        r0  == roundAll(el, pd)
        su  == sumOf(r0, pd)
        rk0 == rankAll(el, r0, pd)
    IN barycentricAll(el, correctRem0(r0, rk0, su, pd),
                      correctRank(rk0, su, pd), pd)[m % (pd + 1)]

\* key and weight of every (sample, corner) pair; @@ stores the values
refCorners ==
    [m \in SlotIds |-> [key |-> cornerKey(m), weight |-> refWeight(m)]] @@ <<>>

refSplat(corners) ==
    [k \in {corners[m].key : m \in SlotIds} |-> [j \in Channels |->
        SumOver([m \in SlotIds |->
                    IF corners[m].key # k THEN 0
                    ELSE IF j < vd - 1
                         THEN inputs[m \div (pd + 1)][j] * corners[m].weight
                         ELSE corners[m].weight], SlotIds)] @@ <<>>] @@ <<>>

refNeighbour(k, c, dir) ==
    [i \in 0..(pd - 1) |->
        IF i = c THEN k[i] + dir - dir * (pd + 1) ELSE k[i] + dir]

refAt(acc, k) == IF k \in DOMAIN acc THEN acc[k] ELSE ZeroVec

refBlurRound(acc, c) ==
    [k \in DOMAIN acc |->
        LET np == refAt(acc, refNeighbour(k, c, 1))
            nm == refAt(acc, refNeighbour(k, c, -1))
        IN [j \in Channels |-> np[j] + 2 * acc[k][j] + nm[j]] @@ <<>>] @@ <<>>

RECURSIVE refBlur(_, _, _)
refBlur(acc, c, left) ==
    IF left = 0 THEN acc
    ELSE refBlur(refBlurRound(acc, c), IF reverse THEN c - 1 ELSE c + 1, left - 1)

refSlice(corners, acc, idx, j) ==
    SumOver([r \in 0..pd |->
                corners[idx * (pd + 1) + r].weight
                    * acc[corners[idx * (pd + 1) + r].key][j]], 0..pd)

refOutput ==
    LET corners == refCorners
        acc == refBlur(refSplat(corners), IF reverse THEN pd ELSE 0, pd + 1)
    IN [idx \in Samples |->
            [num |-> [j \in 0..(vd - 2) |-> refSlice(corners, acc, idx, j)],
             den |-> refSlice(corners, acc, idx, vd - 1)]]

\* C9: whatever the interleaving of the workers in each phase, and whichever
\* slot became canonical for a key, filter's output is the output of the
\* single-threaded reference engine.
C9_MatchesReference ==
    phase = "done" => output = refOutput

\* the inserts raced, and a key's slot is not the one the first worker to
\* compute the key would have taken
C9_Witness ==
    /\ phase = "done" /\ n = 2 /\ Duplicated
    /\ inputs[0] # inputs[1]
    /\ \E m, m2 \in SlotIds :
        m < m2 /\ cornerKey(m) = cornerKey(m2) /\ retrieve(cornerKey(m)) = m2

\* ------------------------------------------------------------ C10
\* C10 as stated: when n reaches the worker-count limit the constructor's
\* check stops the engine and no kernel of filter is launched.
C10_OverflowRefused ==
    warned => phase \in {"new", "constructed"}

\* ------------------------------------------------------------ C16
\* e lies halfway between two consecutive multiples of pd+1
isTie(e, d) ==
    /\ upOf(e, d) # downOf(e, d)
    /\ upOf(e, d) * Res - e = e - downOf(e, d) * Res

\* rem0 of the worker holds the rounding, not yet corrected
justRounded(idx) == phase = "create" /\ wk[idx].pc = "rank"

\* C16 as stated: an elevated coordinate halfway between two multiples of
\* pd+1 is rounded to the upper one.
C16_TiesRoundUp ==
    \A idx \in Samples :
        justRounded(idx) =>
            \A i \in 0..pd :
                isTie(wk[idx].elevated[i], pd) =>
                    wk[idx].rem0[i] = upOf(wk[idx].elevated[i], pd)

\* C16 amended: an elevated coordinate halfway between two multiples of pd+1
\* is rounded to the lower one (up is taken only when strictly nearer).
C16_TiesRoundDown ==
    \A idx \in Samples :
        justRounded(idx) =>
            \A i \in 0..pd :
                isTie(wk[idx].elevated[i], pd) =>
                    wk[idx].rem0[i] = downOf(wk[idx].elevated[i], pd)

\* a rounded sample with a coordinate halfway, below zero
C16_Witness ==
    /\ justRounded(0)
    /\ \E i \in 0..pd : isTie(wk[0].elevated[i], pd) /\ wk[0].elevated[i] < 0

\* ------------------------------------------------------------ C17
\* cf[lo] + ... + cf[pd-1]
scaledSum(cf, lo) == SumOver([k \in lo..(pd - 1) |-> cf[k]], lo..(pd - 1))

elevatedOf(idx) == phase = "create" /\ wk[idx].pc # "elevate"

\* C17 as stated: elevated[pd] is the sum of the scaled coordinates, the
\* other elevated[i] are running sum - i * cf[i-1].
C17_ElevatedLastIsSum ==
    \A idx \in Samples :
        elevatedOf(idx) =>
            /\ wk[idx].elevated[pd] = scaledSum(positions[idx], 0)
            /\ \A i \in 1..(pd - 1) :
                wk[idx].elevated[i] =
                    scaledSum(positions[idx], i) - i * positions[idx][i - 1]

\* C17 amended: elevated[0] is the sum of the scaled coordinates; for i from
\* pd down to 1, elevated[i] is the sum of the coordinates cf[i..pd-1] taken
\* so far minus i * cf[i-1].
C17_ElevatedFirstIsSum ==
    \A idx \in Samples :
        elevatedOf(idx) =>
            /\ wk[idx].elevated[0] = scaledSum(positions[idx], 0)
            /\ \A i \in 1..pd :
                wk[idx].elevated[i] =
                    scaledSum(positions[idx], i) - i * positions[idx][i - 1]

\* two nonzero coordinates, the running sum matters
C17_Witness ==
    /\ elevatedOf(0) /\ pd = 2
    /\ positions[0][0] # 0 /\ positions[0][1] # 0
    /\ wk[0].elevated[1] # -positions[0][0]

\* ------------------------------------------------------------ C18
isPermutation(rk) == {rk[i] : i \in 0..pd} = 0..pd

ranked(idx) ==
    phase = "create" /\ wk[idx].pc \notin {"elevate", "round", "rank"}

\* the correction loops have run
corrected(idx) ==
    phase = "create" /\ wk[idx].pc \notin {"elevate", "round", "rank", "correct"}

\* C18: the rank vector is a permutation of 0..pd when the comparison loop
\* ends, equal residuals included, and again after the correction for a
\* nonzero sum.
C18_RankIsPermutation ==
    \A idx \in Samples : ranked(idx) => isPermutation(wk[idx].rank)

\* a corrected sample with negative sum and two equal residuals
C18_Witness ==
    /\ corrected(0) /\ wk[0].sum < 0
    /\ LET el == wk[0].elevated
           r0 == roundAll(el, pd)
       IN \E i, j \in 0..pd :
            i # j /\ residual(el, r0, i) = residual(el, r0, j)

\* ------------------------------------------------------------ C19
\* the lattice point of corner `remainder`, all pd+1 coordinates
latticePoint(rem, rk, remainder) ==
    [i \in 0..pd |->
        IF rk[i] > pd - remainder THEN rem[i] + remainder - (pd + 1)
        ELSE rem[i] + remainder]

\* C19: after the correction the rem0 sum to zero; for every corner the
\* lattice point has all coordinates congruent to remainder modulo pd+1 and
\* coordinates summing to zero; the key given to insert is its first pd
\* coordinates.
C19_LatticePointOnPlane ==
    \A idx \in Samples :
        corrected(idx) =>
            /\ SumOver(wk[idx].rem0, 0..pd) = 0
            /\ \A remainder \in 0..pd :
                LET pt == latticePoint(wk[idx].rem0, wk[idx].rank, remainder)
                IN /\ \A i \in 0..pd : pt[i] % (pd + 1) = remainder % (pd + 1)
                   /\ SumOver(pt, 0..pd) = 0
                   /\ (wk[idx].pc \in {"probe", "writekey", "publish"}
                            /\ wk[idx].remainder = remainder)
                        => \A i \in 0..(pd - 1) : wk[idx].key[i] = pt[i]

\* the last corner of a sample whose rounding had to be corrected
C19_Witness ==
    /\ corrected(0) /\ wk[0].pc = "probe" /\ wk[0].remainder = pd
    /\ wk[0].sum # 0 /\ pd = 2

\* ------------------------------------------------------------ C12
\* the step that writes the key of slot s
keyWriteStep(s) ==
    /\ phase = "create"
    /\ wk[s \div (pd + 1)].pc = "writekey"
    /\ slotOf(s \div (pd + 1), wk[s \div (pd + 1)].remainder) = s
    /\ wk'[s \div (pd + 1)].pc = "publish"

\* C12: a published probe entry stays published and the key of the slot it
\* points to stays the same, through the other inserts and through
\* cleanHashTable; the key of a slot is written by one step only, before any
\* entry points to the slot, so at most once.
C12_KeysStable ==
    [][phase # "new" =>
        /\ \A h \in ProbeIds :
            entries[h] >= 0 =>
                (entries'[h] >= 0 /\ keys'[entries'[h]] = keys[entries[h]])
        /\ \A s \in SlotIds :
            (keys'[s] # keys[s] \/ keyWriteStep(s)) =>
                (keyWriteStep(s) /\ \A h \in ProbeIds : entries[h] # s)]_vars

\* cleanHashTable has moved the entry a slot was published in to another
\* slot that stores the same key
C12_Witness ==
    /\ CleanDone
    /\ \E m \in SlotIds :
        /\ keys[m] = cornerKey(m) /\ keys[m] # [i \in 0..(pd - 1) |-> 0]
        /\ entries[matrix[m].index] # m
        /\ keys[entries[matrix[m].index]] = keys[m]

\* ------------------------------------------------------------ C13
\* the worker is about to probe a cell another insert has locked
lockedProbe(idx) ==
    phase = "create" /\ wk[idx].pc = "probe" /\ entries[wk[idx].h] = -2

\* C13 as stated: an insert that finds its probe position locked stays at
\* that position.
C13_LockedRetries ==
    [][\A idx \in Samples : lockedProbe(idx) => wk'[idx].h = wk[idx].h]_vars

\* C13 amended: an insert that finds its probe position locked goes on to
\* the next probe position at once and keeps probing from there (a step
\* that leaves the other workers as they were is the step of idx).
C13_LockedMovesOn ==
    [][\A idx \in Samples :
        (lockedProbe(idx) /\ \A o \in Samples \ {idx} : wk'[o] = wk[o]) =>
            wk'[idx] = [wk[idx] EXCEPT !.h = nextProbe(wk[idx].h)]]_vars

\* a worker has passed the home cell of its key while another worker,
\* inserting the same key, still holds it locked
C13_Witness ==
    /\ phase = "create"
    /\ \E a, b \in Samples :
        /\ a # b
        /\ wk[a].pc \in {"writekey", "publish"} /\ entries[wk[a].h] = -2
        /\ wk[b].pc = "probe" /\ wk[b].key = wk[a].key
        /\ wk[a].h = modHash(hash(wk[b].key, pd), capacity)
        /\ wk[b].h = nextProbe(wk[a].h)

\* ------------------------------------------------------------ C14
\* the workers between locking the entry h and publishing it
claimers(h) ==
    {idx \in Samples : wk[idx].pc \in {"writekey", "publish"} /\ wk[idx].h = h}

EntryLifecycle ==
    /\ phase # "new" =>
         \A h \in ProbeIds : entries[h] \in {-1, -2} \cup SlotIds
    /\ phase = "create" =>
         \A h \in ProbeIds :
            /\ Cardinality(claimers(h)) <= 1
            /\ entries[h] = -2 <=> claimers(h) # {}
    /\ (CreateDone \/ AfterClean \/ phase = "clean") =>
         \A h \in ProbeIds : entries[h] # -2

\* C14: an entry goes from empty (-1) to locked (-2) to a slot (>= 0) and
\* never back; a locked entry has exactly one worker between locking and
\* publishing it; no entry is locked once createLattice has finished.
C14_EntryLifecycle ==
    /\ []EntryLifecycle
    /\ [][phase # "new" =>
            \A h \in ProbeIds :
                /\ entries[h] = -1 => entries'[h] \in {-1, -2}
                /\ entries[h] = -2 => (entries'[h] = -2 \/ entries'[h] >= 0)
                /\ entries[h] >= 0 => entries'[h] >= 0]_vars

\* two entries are locked at once, each by its own worker
C14_Witness ==
    /\ phase = "create"
    /\ \E h1, h2 \in ProbeIds :
        h1 # h2 /\ entries[h1] = -2 /\ entries[h2] = -2

\* ------------------------------------------------------------ C15
\* C15 as stated: createLattice, cleanHashTable and slice change neither the
\* accumulators nor the entries.
C15_OnlySplatBlurMutate ==
    [][(phase \in {"create", "clean", "slice"}) =>
        /\ entries' = entries
        /\ buf' = buf]_vars

\* C15 amended: the accumulators are changed only by splatCache and blur;
\* the entries are changed only by createLattice and cleanHashTable; slice
\* changes neither.
C15_MutatedByStage ==
    [][phase # "new" =>
        /\ buf' # buf => phase \in {"splat", "blur"}
        /\ entries' # entries => phase \in {"create", "clean"}]_vars

\* slice has run over accumulators that splat and blur filled, on a table
\* whose entries cleanHashTable rewrote
C15_Witness ==
    /\ phase = "slice" /\ AllDone /\ Duplicated
    /\ \E m \in SlotIds : entries[matrix[m].index] # matrix[m].index
    /\ \E s \in SlotIds : buf[kern.values][s][vd - 1] > 0

\* ------------------------------------------------------------ C20
\* what blur computes for the slot idx from the buffer the round reads
blurResult(idx) ==
    LET offNp == retrieve(neighbour(keys[idx], color, 1))
        offNm == retrieve(neighbour(keys[idx], color, -1))
        valNp == IF offNp >= 0 THEN buf[kern.values][offNp] ELSE ZeroVec
        valNm == IF offNm >= 0 THEN buf[kern.values][offNm] ELSE ZeroVec
    IN stencil(valNp, buf[kern.values][idx], valNm)

BlurSeparate ==
    phase = "blur" =>
        /\ kern.values # kern.newValues
        /\ \A idx \in SlotIds :
            (wk[idx].pc = "done" /\ isValid(idx)) =>
                buf[kern.newValues][idx] = blurResult(idx)

\* C20: in a blur round the buffer the workers read is not the buffer they
\* write and no step of the round changes the buffer read, so what each
\* worker has written is the stencil of the values the round started with,
\* whatever the order of the workers.
C20_BlurNoHazard ==
    /\ []BlurSeparate
    /\ [][phase = "blur" => buf'[kern.values] = buf[kern.values]]_vars

\* a worker is still to read the slot of a neighbour that has already
\* written its new value
C20_Witness ==
    /\ phase = "blur"
    /\ \E a, b \in SlotIds :
        /\ a # b /\ isValid(a) /\ isValid(b)
        /\ wk[a].pc = "done" /\ wk[b].pc = "run"
        /\ retrieve(neighbour(keys[b], color, 1)) = a
        /\ buf[kern.newValues][a] # buf[kern.values][a]

\* ---------------------------------------------------------------- C11
\* the call has made a full round of the table: 2*capacity probes, none of
\* which found the key or an empty entry
exhausted(w) == w.pc \in {"insert", "retrieve"} /\ w.probes >= 2 * capacity

\* C11: an insert or a retrieve that has probed all 2*capacity entries
\* without finding a matching key or an empty entry ends in a fatal error
\* state; it does not wrap around and go on probing. (The code has no such
\* state: the call stays in its loop and the next probe is made at the
\* entry the call started from.)
C11_ExhaustionFatal ==
    phase = "table" => ~exhausted(wk[0])

\* a call is about to probe, for the second time, the entry it started from
C11_Witness ==
    /\ phase = "table"
    /\ exhausted(wk[0])
    /\ wk[0].probes = 2 * capacity
    /\ wk[0].h = modHash(hash(wk[0].key, pd), capacity)

\* ---------------------------------------------------------------- C21
\* the slots retrieve gives for the keys createLattice inserted
canonicalSlots == {retrieve(cornerKey(m)) : m \in SlotIds}

\* the slots whose blur worker passes matrix[idx].index == idx
validSlots == {idx \in SlotIds : isValid(idx)}

\* the keys createLattice inserted
insertedKeys == {cornerKey(m) : m \in SlotIds}

\* the step of the blur worker of slot s
blurStep(s) == wk[s].pc = "run" /\ wk'[s].pc = "done"

\* a blur round has been launched and no worker has run yet
roundStart == phase = "blur" /\ \A s \in SlotIds : wk[s].pc = "run"

\* C21: in every blur round the slots that pass the validity check are
\* exactly the canonical slots, one per distinct inserted key (so it is at
\* the start of a round, and no step of a round changes the matrix or the
\* table's entries and keys); the worker of a valid slot writes the slot's
\* output value in its one step of the round, and no other slot of the
\* output buffer is written.
C21_ValidAreCanonical ==
    /\ [](roundStart =>
            /\ validSlots = canonicalSlots
            /\ Cardinality(validSlots) = Cardinality(insertedKeys))
    /\ [][(phase = "blur" /\ phase' = "blur") =>
            /\ matrix' = matrix /\ entries' = entries /\ keys' = keys
            /\ blurLog' = blurLog =>
                \A s \in SlotIds :
                    /\ (blurStep(s) /\ isValid(s)) =>
                            buf'[kern.newValues][s] = blurResult(s)
                    /\ ~(blurStep(s) /\ isValid(s)) =>
                            buf'[kern.newValues][s] = buf[kern.newValues][s]
                    /\ wk[s].pc = "done" => wk'[s].pc = "done"]_vars

\* a round in which the worker of a slot orphaned by a race has returned
\* and the worker of a canonical slot has written
C21_Witness ==
    /\ phase = "blur" /\ Duplicated
    /\ \E s, t \in SlotIds :
        /\ wk[s].pc = "done" /\ ~isValid(s) /\ keys[s] = cornerKey(s)
        /\ wk[t].pc = "done" /\ isValid(t) /\ keys[t] = keys[s]

\* ---------------------------------------------------------------- C22
\* the slot the matrix entry of sample idx, corner c resolves to (once the
\* thread has converted it)
slotAt(idx, c) == matrix[idx * (pd + 1) + c].index

\* every thread of the group of <<idx, c>> has stored its offset and value
groupStored(idx, c) ==
    \A o \in Samples :
        blockOf(o) = blockOf(idx) =>
            sharedOffsets[<<blockOf(idx), c>>][threadOf(o)] = slotAt(o, c) * vd

\* no thread of the group with a lower index has the slot of <<idx, c>>
lowest(idx, c) ==
    \A o \in Samples :
        (blockOf(o) = blockOf(idx) /\ o < idx) => slotAt(o, c) # slotAt(idx, c)

\* the thread performs its atomicAdd's / returns from the scan loop
addStep(idx, c) == wk[<<idx, c>>].pc = "add" /\ wk'[<<idx, c>>].pc = "done"
yieldStep(idx, c) == wk[<<idx, c>>].pc = "scan" /\ wk'[<<idx, c>>].pc = "done"

\* C22: in splatCache, among the threads of one group (block and corner)
\* whose matrix entries resolve to one slot, the thread with the lowest index
\* and no other performs the accumulating write, after every thread of the
\* group has stored its contribution; the others return without a write to
\* the accumulators.
C22_LowestWrites ==
    [][(phase = "splat" /\ phase' = "splat") =>
        /\ \A idx \in Samples, c \in 0..pd :
            /\ addStep(idx, c) =>
                /\ groupStored(idx, c)
                /\ lowest(idx, c)
                /\ \A s \in SlotIds \ {slotAt(idx, c)} :
                        buf'[kern.values][s] = buf[kern.values][s]
            /\ yieldStep(idx, c) => (~lowest(idx, c) /\ buf' = buf)
        /\ buf' # buf => \E idx \in Samples, c \in 0..pd : addStep(idx, c)]_vars

\* two threads of one group with one slot are done: the higher one has
\* returned from the scan, the lower one has added the sum of both
C22_Witness ==
    /\ phase = "splat"
    /\ \E idx, o \in Samples, c \in 0..pd :
        /\ idx < o /\ blockOf(idx) = blockOf(o)
        /\ wk[<<idx, c>>].pc = "done" /\ wk[<<o, c>>].pc = "done"
        /\ slotAt(idx, c) = slotAt(o, c)
        /\ buf[kern.values][slotAt(idx, c)][vd - 1] =
                matrix[idx * (pd + 1) + c].weight + matrix[o * (pd + 1) + c].weight
        /\ matrix[o * (pd + 1) + c].weight > 0

\* ---------------------------------------------------------------- C23
\* the probe position insert starts from for the key stored at slot s
homeOf(s) == modHash(hash(keys[s], pd), capacity)

\* C23: when the insert calls of createLattice ran one at a time, no step of
\* cleanHashTable changes a probe entry (or a key): the pass is a no-op.
C23_SerialCleanIsNoOp ==
    [][(phase = "clean" /\ ~overlapped) =>
            (entries' = entries /\ keys' = keys)]_vars

\* cleanHashTable has rewritten every entry after a run without overlap in
\* which two keys shared a home position: the entry of one of them lies
\* further on, and retrieve has probed past the other key to find it
C23_Witness ==
    /\ CleanDone /\ ~overlapped
    /\ \E h \in ProbeIds : entries[h] >= 0 /\ homeOf(entries[h]) # h

\* ---------------------------------------------------------------- C24
\* the probe entries that are not empty (locked or holding a slot)
occupied == {h \in ProbeIds : entries[h] # -1}

\* C24: in a filter invocation on a fresh table at most capacity of the
\* 2*capacity probe entries are ever non-empty, and when the device keeps
\* running its threads every insert call of createLattice and every retrieve
\* call of cleanHashTable returns, however the threads interleave: both
\* kernels run to the state where all their workers are done.
C24_CallsTerminate ==
    /\ [](phase # "new" => Cardinality(occupied) <= capacity)
    /\ <>CleanDone

\* every call has returned, half of the probe entries are occupied, and one
\* of them lies off its key's home position: its insert call and the
\* retrieve calls for its key probed more than one position
C24_Witness ==
    /\ CleanDone
    /\ Cardinality(occupied) = capacity
    /\ \E h \in ProbeIds : entries[h] >= 0 /\ homeOf(entries[h]) # h

====
